---- MODULE Spec2Model ----
(***************************************************************************)
(* A model of the option-pricing scripts of the repository:                *)
(*   src/SinglePeriodBinomial.py      binomial_CPT_paper, print_CPT, main  *)
(*   src/models/black_scholes.py      bs_call_put and the dashboard script *)
(*   src/relationships/call_put_parity.py   the parity plotting script     *)
(*                                                                         *)
(* Numbers.  The binomial pricer is modelled in exact rational arithmetic  *)
(* (records [n, d]); Python's round(x, 2) is the nearest multiple of 1/100 *)
(* and, where the exact value lies half-way between two multiples, either  *)
(* neighbour: which one a double lands on depends on its representation    *)
(* error (round(2.675, 2) = 2.67, round(0.125, 2) = 0.12).                 *)
(***************************************************************************)
EXTENDS Integers, Sequences, FiniteSets, TLC

(***************************************************************************)
(* Exact rationals                                                         *)
(***************************************************************************)
Abs(x) == IF x < 0 THEN -x ELSE x

RECURSIVE GCD(_, _)
GCD(a, b) == IF b = 0 THEN a ELSE GCD(b, a % b)

\* n/d in lowest terms with a positive denominator (d # 0)
Rat(n, d) ==
    LET g == GCD(Abs(n), Abs(d))
        s == IF d < 0 THEN -1 ELSE 1
    IN  [n |-> s * (n \div g), d |-> s * (d \div g)]

RInt(i) == [n |-> i, d |-> 1]
RZero == RInt(0)
ROne == RInt(1)
RAdd(a, b) == Rat(a.n * b.d + b.n * a.d, a.d * b.d)
RSub(a, b) == Rat(a.n * b.d - b.n * a.d, a.d * b.d)
RMul(a, b) == Rat(a.n * b.n, a.d * b.d)
\* defined only for b # 0: the callers raise ZeroDivisionError first
RDiv(a, b) == Rat(a.n * b.d, a.d * b.n)
RLt(a, b) == a.n * b.d < b.n * a.d
RLe(a, b) == a.n * b.d <= b.n * a.d
RIsZero(a) == a.n = 0
\* Python's max(a, b): the first argument unless the second is larger
RMax(a, b) == IF RLt(a, b) THEN b ELSE a

\* floor of the integer quotient a/b for b > 0
FloorDiv(a, b) == a \div b

\* round(x, 2): the set of values Python's round can return for a double near x
Round2Exact(x) ==
    LET num == 100 * x.n
        fl == FloorDiv(num, x.d)
        rem2 == 2 * (num - fl * x.d)
    IN  IF rem2 < x.d THEN {Rat(fl, 100)}
        ELSE IF rem2 > x.d THEN {Rat(fl + 1, 100)}
        ELSE {Rat(fl, 100), Rat(fl + 1, 100)}

Round2Trunc(x) == {Rat(FloorDiv(100 * x.n, x.d), 100)}

Round2(x) == Round2Exact(x)

(***************************************************************************)
(* src/SinglePeriodBinomial.py                                             *)
(***************************************************************************)
VARIABLES bArgs, bRet, mainPc, call, put, stdout

binomVars == <<bArgs, bRet, mainPc, call, put, stdout>>

\* the outcomes of a call: nothing yet, an exception, a returned value
NoCall == [kind |-> "none"]
Raise(exc, line) == [kind |-> "raise", exc |-> exc, line |-> line]
Return(v) == [kind |-> "return", val |-> v]

\* lines 14-19: the two payoffs; any option other than "call" is priced as a put
PayoffsNoFloor(Su, Sd, K, option) ==
    IF option = "call"
    THEN [Cu |-> RSub(Su, K), Cd |-> RSub(Sd, K)]
    ELSE [Cu |-> RSub(K, Su), Cd |-> RSub(K, Sd)]

PayoffsCallAlways(Su, Sd, K, option) ==
    [Cu |-> RMax(RSub(Su, K), RZero), Cd |-> RMax(RSub(Sd, K), RZero)]

Payoffs(Su, Sd, K, option) ==
    IF option = "call"
    THEN [Cu |-> RMax(RSub(Su, K), RZero), Cd |-> RMax(RSub(Sd, K), RZero)]
    ELSE [Cu |-> RMax(RSub(K, Su), RZero), Cd |-> RMax(RSub(K, Sd), RZero)]

\* line 22
GrowthFactorNoT(r, T) == RAdd(ROne, r)

GrowthFactor(r, T) == RAdd(ROne, RMul(r, T))

\* line 25, once u - d is known to be nonzero
RiskNeutralPUnrounded(R, u, d) == {RDiv(RSub(R, d), RSub(u, d))}

RiskNeutralP(R, u, d) == Round2(RDiv(RSub(R, d), RSub(u, d)))

\* line 28
ExpectedPayoffRounded(p, Cu, Cd) ==
    CHOOSE e \in Round2Trunc(RAdd(RMul(p, Cu), RMul(RSub(ROne, p), Cd))) : TRUE

ExpectedPayoff(p, Cu, Cd) == RAdd(RMul(p, Cu), RMul(RSub(ROne, p), Cd))

\* line 31, once R is known to be nonzero
Price(expected_payoff, R) == Round2(RDiv(expected_payoff, R))

\* line 34, once Su - Sd is known to be nonzero
HedgeRatio(Cu, Cd, Su, Sd) == Round2(RDiv(RSub(Cu, Cd), RSub(Su, Sd)))

\* line 37
BondPosition(price, delta, S0) == Round2(RSub(price, RMul(delta, S0)))

\* lines 39-51
ResultDict(S0, Su, Sd, Cu, Cd, R, p, expected_payoff, delta, B, price) ==
    ("S0" :> S0) @@ ("Su" :> Su) @@ ("Sd" :> Sd) @@ ("Cu" :> Cu) @@ ("Cd" :> Cd)
    @@ ("R" :> R) @@ ("p" :> p) @@ ("Expected Payoff" :> expected_payoff)
    @@ ("Delta" :> delta) @@ ("Bond" :> B) @@ ("Price" :> price)

\* lines 7-51: every outcome the call can have.  A division raises
\* ZeroDivisionError when its divisor is zero, and the statements run in order.
binomial_CPT_paper(S0, K, r, T, u, d, option) ==
    LET Su == RMul(S0, u)
        Sd == RMul(S0, d)
        pay == Payoffs(Su, Sd, K, option)
        R == GrowthFactor(r, T)
    IN  IF RIsZero(RSub(u, d)) THEN {Raise("ZeroDivisionError", 25)}
        ELSE IF RIsZero(R) THEN {Raise("ZeroDivisionError", 31)}
        ELSE IF RIsZero(RSub(Su, Sd)) THEN {Raise("ZeroDivisionError", 34)}
        ELSE UNION { UNION { UNION { {
                 Return(ResultDict(S0, Su, Sd, pay.Cu, pay.Cd, R, p,
                                   ExpectedPayoff(p, pay.Cu, pay.Cd), delta, B, price))
                 : B \in BondPosition(price, delta, S0) }
               : delta \in HedgeRatio(pay.Cu, pay.Cd, Su, Sd) }
               : price \in Price(ExpectedPayoff(p, pay.Cu, pay.Cd), R) }
               : p \in RiskNeutralP(R, u, d) }

\* the inputs explored: spot, strike, rate, horizon, up and down factors, kind
MaxSpotSteps == 2
MaxT == 2
SpotValues == {RInt(50 * i) : i \in 0..MaxSpotSteps}
StrikeValues == {RInt(0), RInt(90), RInt(110)}
RateValues == {Rat(-1, 1), Rat(-1, 2), RZero, Rat(5, 100)}
HorizonValues == {RInt(t) : t \in 1..MaxT}
UpValues == {Rat(7, 10), Rat(5, 4), Rat(16, 10)}
DownValues == {Rat(-2, 1), Rat(7, 10), Rat(9, 10), Rat(16, 10)}
OptionValues == {"call", "put", "straddle"}

BinomArgs ==
    [S0 : SpotValues, K : StrikeValues, r : RateValues, T : HorizonValues,
     u : UpValues, d : DownValues, option : OptionValues]

\* the caller's arguments are any of the inputs explored; the script has not started
BinomInit ==
    /\ bArgs \in BinomArgs
    /\ bRet = NoCall
    /\ mainPc = "call"
    /\ call = NoCall
    /\ put = NoCall
    /\ stdout = <<>>

\* a call of binomial_CPT_paper with the caller's arguments
Invoke ==
    /\ bRet = NoCall
    /\ bRet' \in binomial_CPT_paper(bArgs.S0, bArgs.K, bArgs.r, bArgs.T,
                                    bArgs.u, bArgs.d, bArgs.option)
    /\ UNCHANGED <<bArgs, mainPc, call, put, stdout>>

\* lines 56-76: the fields print_CPT prints, in order
print_CPT(results, option) ==
    <<option, results["S0"], results["Su"], results["Sd"], results["Cu"], results["Cd"],
      results["R"], results["p"], results["Delta"], results["Bond"], results["Price"]>>

\* lines 83-88
MainS0 == RInt(100)
MainK == RInt(110)
MainR == Rat(5, 100)
MainT == RInt(1)
MainU == Rat(16, 10)
MainD == Rat(7, 10)

\* lines 90-92: the script prices the call and prints it; an exception ends the run
MainCall ==
    /\ mainPc = "call"
    /\ call' \in binomial_CPT_paper(MainS0, MainK, MainR, MainT, MainU, MainD, "call")
    /\ IF call'.kind = "return"
       THEN /\ stdout' = Append(stdout, print_CPT(call'.val, "call"))
            /\ mainPc' = "put"
       ELSE /\ stdout' = stdout
            /\ mainPc' = "crashed"
    /\ UNCHANGED <<bArgs, bRet, put>>

\* lines 94-96: then the put
MainPut ==
    /\ mainPc = "put"
    /\ put' \in binomial_CPT_paper(MainS0, MainK, MainR, MainT, MainU, MainD, "put")
    /\ IF put'.kind = "return"
       THEN /\ stdout' = Append(stdout, print_CPT(put'.val, "put"))
            /\ mainPc' = "done"
       ELSE /\ stdout' = stdout
            /\ mainPc' = "crashed"
    /\ UNCHANGED <<bArgs, bRet, call>>

(***************************************************************************)
(* Floating point.  src/models/black_scholes.py computes in IEEE doubles    *)
(* with log, sqrt, exp and the normal distribution.  The model keeps what   *)
(* matters of that arithmetic: numbers are m * 10^e with a mantissa of      *)
(* Digits4 significant digits, every operation rounds its exact result to   *)
(* the nearest such number (ties to the even mantissa), division by zero    *)
(* and log of a non-positive number raise, exp overflows and underflows.    *)
(* The library functions are computed to about that precision.              *)
(***************************************************************************)
Digits4 == 2 + 2
MantLimit == 10 ^ Digits4
Sign(x) == IF x < 0 THEN -1 ELSE IF x > 0 THEN 1 ELSE 0

RECURSIVE NumDigits(_)
NumDigits(n) == IF n < 10 THEN 1 ELSE 1 + NumDigits(n \div 10)

\* a / b for a >= 0, b > 0, rounded to the nearest integer, ties to even
RoundHalfEven(a, b) ==
    LET fl == a \div b
        rem2 == 2 * (a - fl * b)
    IN  IF rem2 < b THEN fl
        ELSE IF rem2 > b THEN fl + 1
        ELSE IF fl % 2 = 0 THEN fl ELSE fl + 1

DZero == [m |-> 0, e |-> 0]

\* the float nearest to m * 10^e
DecRounded(m, e, k, q) ==
    IF q = MantLimit
    THEN [m |-> Sign(m) * (MantLimit \div 10), e |-> e + (k - Digits4) + 1]
    ELSE [m |-> Sign(m) * q, e |-> e + (k - Digits4)]

DecDigits(m, e, k) ==
    IF k <= Digits4
    THEN [m |-> m * 10 ^ (Digits4 - k), e |-> e - (Digits4 - k)]
    ELSE DecRounded(m, e, k, RoundHalfEven(Abs(m), 10 ^ (k - Digits4)))

Dec(m, e) == IF m = 0 THEN DZero ELSE DecDigits(m, e, NumDigits(Abs(m)))

DInt(i) == Dec(i, 0)
\* the integer part of a float (towards zero), for |a| below 2^31
ToInt(a) ==
    IF a.e >= 0 THEN a.m * 10 ^ a.e
    ELSE IF -a.e > Digits4 THEN 0
    ELSE Sign(a.m) * (Abs(a.m) \div 10 ^ (-a.e))
IntMax(a, b) == IF a >= b THEN a ELSE b
DOne == DInt(1)
DNeg(a) == [m |-> -a.m, e |-> a.e]

\* a + b, correctly rounded
DAdd(a, b) ==
    IF a.m = 0 THEN b
    ELSE IF b.m = 0 THEN a
    ELSE LET hi == IF a.e >= b.e THEN a ELSE b
             lo == IF a.e >= b.e THEN b ELSE a
             gap == hi.e - lo.e
         IN  IF gap > Digits4 + 1 THEN hi
             ELSE Dec(hi.m * 10 ^ gap + lo.m, lo.e)

DSub(a, b) == DAdd(a, DNeg(b))
DMul(a, b) == Dec(a.m * b.m, a.e + b.e)

\* a / b for b # 0, correctly rounded: the quotient to six digits and a sticky
\* digit for a remainder
DDiv(a, b) ==
    LET n == Abs(a.m) * 10 ^ (Digits4 + 1)
        q == n \div Abs(b.m)
        sticky == IF n - q * Abs(b.m) > 0 THEN 1 ELSE 0
    IN  Dec(Sign(a.m) * Sign(b.m) * (q * 10 + sticky), a.e - b.e - (Digits4 + 2))

DLt(a, b) == DSub(a, b).m < 0
DLe(a, b) == DSub(a, b).m <= 0
\* Python's max(a, b): the first argument unless the second is larger
DMax(a, b) == IF DLt(a, b) THEN b ELSE a

RECURSIVE ISqrtIn(_, _, _)
ISqrtIn(n, lo, hi) ==
    IF lo >= hi THEN lo
    ELSE LET mid == (lo + hi + 1) \div 2
         IN  IF mid * mid <= n THEN ISqrtIn(n, mid, hi) ELSE ISqrtIn(n, lo, mid - 1)

ISqrt(n) == ISqrtIn(n, 0, 46340)

\* math.sqrt(a) for a > 0
DSqrtOf(n, s, e2) ==
    Dec(s * 10 + (IF s * s # n THEN 1 ELSE 0), (e2 \div 2) - (Digits4 \div 2) - 1)

DSqrtEven(m2, e2) == DSqrtOf(m2 * MantLimit, ISqrt(m2 * MantLimit), e2)

DSqrt(a) == IF a.e % 2 # 0 THEN DSqrtEven(a.m * 10, a.e - 1) ELSE DSqrtEven(a.m, a.e)

\* fixed point: an integer count of 1/FixOne
FixOne == 10 ^ 4
Ln2Fix == 6931
Ln10Fix == 23026

\* a as a count of 1/FixOne, truncated; for |a| below 200000
ToFix(a) ==
    LET sh == a.e + 4
    IN  IF sh >= 0 THEN a.m * 10 ^ sh
        ELSE IF -sh > Digits4 THEN 0
        ELSE Sign(a.m) * (Abs(a.m) \div 10 ^ (-sh))

\* ln(y) in fixed point for y in [1, 10) given in fixed point:
\* ln y = k ln 2 + 2 atanh z, z = (y' - 1)/(y' + 1), y' = y / 2^k in [1, 2)
RECURSIVE LnFix(_)
LnFix(y) ==
    IF y >= 2 * FixOne THEN Ln2Fix + LnFix(y \div 2)
    ELSE LET z == ((y - FixOne) * FixOne) \div (y + FixOne)
             z2 == (z * z) \div FixOne
             t4 == FixOne \div 9
             t3 == FixOne \div 7 + (z2 * t4) \div FixOne
             t2 == FixOne \div 5 + (z2 * t3) \div FixOne
             t1 == FixOne \div 3 + (z2 * t2) \div FixOne
             t0 == FixOne + (z2 * t1) \div FixOne
         IN  (2 * z * t0) \div FixOne

\* math.log(a) for a > 0
DLog(a) ==
    LET mant == a.m * 10 ^ (4 - (Digits4 - 1))
        ex == a.e + (Digits4 - 1)
    IN  Dec(LnFix(mant) + ex * Ln10Fix, -4)

\* exp(u) in fixed point for u in [0, 0.6) in fixed point, by its Taylor series
ExpFix(u) ==
    LET t5 == FixOne + u \div 6
        t4 == FixOne + (u * t5) \div (5 * FixOne)
        t3 == FixOne + (u * t4) \div (4 * FixOne)
        t2 == FixOne + (u * t3) \div (3 * FixOne)
        t1 == FixOne + (u * t2) \div (2 * FixOne)
    IN  FixOne + (u * t1) \div FixOne

\* math.exp(a): 10^k * exp(f ln 10) where a log10(e) = k + f, 0 <= f < 1.
\* A double overflows above exp(709.78) and is 0.0 below exp(-745.13).
ExpOverflows(a) == DLt(Dec(7098, -1), a)
ExpScaled(k, h) == Dec((h * h) \div FixOne, k - 4)

ExpSquared(k, q) == ExpScaled(k, (q * q) \div FixOne)

ExpSplit(t, k) == ExpSquared(k, ExpFix((((t - k * FixOne) * Ln10Fix) \div FixOne) \div 4))

DExp(a) ==
    IF DLt(a, Dec(-7451, -1)) THEN DZero
    ELSE ExpSplit(ToFix(DMul(a, Dec(4343, -4))), ToFix(DMul(a, Dec(4343, -4))) \div FixOne)

\* scipy.stats.norm.pdf(x) = exp(-x^2 / 2) / sqrt(2 pi)
NormPdf(x) == DMul(Dec(3989, -4), DExp(DNeg(DDiv(DMul(x, x), DInt(2)))))

\* scipy.stats.norm.cdf(x): the upper tail of |x| is pdf(|x|) (a1 t + a2 t^2 + a3 t^3),
\* t = 1 / (1 + 0.33267 |x|)
NormTailAt(ax, t) ==
    DMul(NormPdf(ax),
         DMul(t, DAdd(Dec(4362, -4),
                      DMul(t, DAdd(Dec(-1202, -4), DMul(t, Dec(9373, -4)))))))

NormTail(ax) == NormTailAt(ax, DDiv(DOne, DAdd(DOne, DMul(Dec(3327, -4), ax))))

NormCdf(x) == IF x.m < 0 THEN NormTail(DNeg(x)) ELSE DSub(DOne, NormTail(x))

(***************************************************************************)
(* src/models/black_scholes.py: bs_call_put                                *)
(***************************************************************************)
VARIABLES bsArgs, bsRet

bsVars == <<bsArgs, bsRet>>

\* line 25
AfterExpiry(T) == DLt(T, DZero)

AtOrAfterExpiry(T) == DLe(T, DZero)

\* line 28: delta is 1 above the strike and 0 at or below it
IntrinsicCallDeltaAtStrike(S, K) == IF DLe(K, S) THEN DOne ELSE DZero

IntrinsicCallDelta(S, K) == IF DLt(K, S) THEN DOne ELSE DZero

\* lines 29 and 43
PutDeltaNegated(call_delta) == DNeg(call_delta)

PutDelta(call_delta) == DSub(call_delta, DOne)

\* lines 25-34: at or after expiry the intrinsic values and degenerate greeks
Intrinsic(S, K) ==
    LET call_delta == IntrinsicCallDelta(S, K)
    IN  <<DMax(DSub(S, K), DZero), DMax(DSub(K, S), DZero),
          call_delta, PutDelta(call_delta), DZero, DZero, DZero, DZero>>

\* line 36
D1(S, K, r, sigma, T) ==
    DDiv(DAdd(DLog(DDiv(S, K)),
              DMul(DAdd(r, DMul(Dec(5, -1), DMul(sigma, sigma))), T)),
         DMul(sigma, DSqrt(T)))

\* line 37
D2(d1, sigma, T) == DSub(d1, DMul(sigma, DSqrt(T)))

\* line 39
CallPrice(S, K, r, T, d1, d2) ==
    DSub(DMul(S, NormCdf(d1)), DMul(DMul(K, DExp(DMul(DNeg(r), T))), NormCdf(d2)))

\* line 40
PutPrice(S, K, r, T, d1, d2) ==
    DSub(DMul(DMul(K, DExp(DMul(DNeg(r), T))), NormCdf(DNeg(d2))),
         DMul(S, NormCdf(DNeg(d1))))

\* line 46
Gamma(S, sigma, T, pdf_d1) == DDiv(pdf_d1, DMul(DMul(S, sigma), DSqrt(T)))

\* line 47
Vega(S, T, pdf_d1) == DMul(DMul(S, pdf_d1), DSqrt(T))

\* line 49
CallThetaAnnual(S, K, r, sigma, T, d2, pdf_d1) ==
    DSub(DDiv(DMul(DMul(DNeg(S), pdf_d1), sigma), DMul(DInt(2), DSqrt(T))),
         DMul(DMul(DMul(r, K), DExp(DMul(DNeg(r), T))), NormCdf(d2)))

\* line 50
PutThetaAnnual(S, K, r, sigma, T, d2, pdf_d1) ==
    DAdd(DDiv(DMul(DMul(DNeg(S), pdf_d1), sigma), DMul(DInt(2), DSqrt(T))),
         DMul(DMul(DMul(r, K), DExp(DMul(DNeg(r), T))), NormCdf(DNeg(d2))))

\* lines 39-52 given d1, d2, call_delta (line 42) and pdf_d1 (line 45)
Greeks(S, K, r, sigma, T, d1, d2, call_delta, pdf_d1) ==
    <<CallPrice(S, K, r, T, d1, d2), PutPrice(S, K, r, T, d1, d2),
      call_delta, PutDelta(call_delta),
      Gamma(S, sigma, T, pdf_d1), Vega(S, T, pdf_d1),
      DDiv(CallThetaAnnual(S, K, r, sigma, T, d2, pdf_d1), DInt(365)),
      DDiv(PutThetaAnnual(S, K, r, sigma, T, d2, pdf_d1), DInt(365))>>

AnalyticFrom(S, K, r, sigma, T, d1) ==
    Greeks(S, K, r, sigma, T, d1, D2(d1, sigma, T), NormCdf(d1), NormPdf(d1))

\* lines 36-52 once no operation raises: d1, d2, prices and greeks
Analytic(S, K, r, sigma, T) == AnalyticFrom(S, K, r, sigma, T, D1(S, K, r, sigma, T))

\* lines 19-52: the outcome of a call.  The operations run in source order and the
\* first one that fails ends the call: S / K with K = 0, log of a ratio that is
\* not positive, the division by sigma * sqrt(T) = 0, exp of too large a number,
\* the division by S * sigma * sqrt(T) = 0.
bs_call_put(S, K, r, sigma, T) ==
    IF AtOrAfterExpiry(T) THEN Return(Intrinsic(S, K))
    ELSE IF K.m = 0 THEN Raise("ZeroDivisionError", 36)
    ELSE IF DDiv(S, K).m <= 0 THEN Raise("ValueError", 36)
    ELSE IF DMul(sigma, DSqrt(T)).m = 0 THEN Raise("ZeroDivisionError", 36)
    ELSE IF ExpOverflows(DMul(DNeg(r), T)) THEN Raise("OverflowError", 39)
    ELSE IF DMul(DMul(S, sigma), DSqrt(T)).m = 0 THEN Raise("ZeroDivisionError", 46)
    ELSE Return(Analytic(S, K, r, sigma, T))

\* the inputs explored for a call by any caller
MaxBsSpotSteps == 2
BsSpotValues == {DInt(-100), DZero} \cup {DInt(90 + 10 * i) : i \in 0..MaxBsSpotSteps}
BsStrikeValues == {DInt(-100), DZero, DInt(100)}
BsRateValues == {DZero, Dec(5, -2)}
BsSigmaValues == {Dec(-2, -1), DZero, Dec(2, -1), Dec(5, -1)}
BsTimeValues == {DInt(-1), DZero, Dec(1, -8), Dec(5, -2), Dec(5, -1), DInt(1)}

BsArgs ==
    [S : BsSpotValues, K : BsStrikeValues, r : BsRateValues,
     sigma : BsSigmaValues, T : BsTimeValues]

BsInit ==
    /\ bsArgs \in BsArgs
    /\ bsRet = NoCall

\* a call of bs_call_put with the caller's arguments
BsInvoke ==
    /\ bsRet = NoCall
    /\ bsRet' = bs_call_put(bsArgs.S, bsArgs.K, bsArgs.r, bsArgs.sigma, bsArgs.T)
    /\ UNCHANGED bsArgs

(***************************************************************************)
(* src/models/black_scholes.py: the dashboard script, section by section   *)
(***************************************************************************)
VARIABLES
    secsToExpiry,  \* (expiry - now).total_seconds(), whole seconds
    dpc,           \* the section the script is about to run
    g,             \* the module's globals that later sections read
    csvRow,        \* the index of the next row of the CSV sweep
    sweep,         \* the results of the calls of the loop that ran last
    bsCalls,       \* the arguments of every call of bs_call_put so far
    files,         \* the files written under outdir: name -> content
    printed,       \* the lines printed
    exportFault    \* where the interactive export failed, if it did

dashVars ==
    <<secsToExpiry, dpc, g, csvRow, sweep, bsCalls, files, printed, exportFault>>

\* lines 55-58
S_center == DInt(82000)
K == DInt(93800)
r == Dec(5, -2)
sigma == Dec(50, -2)

\* line 62: years to expiry with a floor of 1e-8
TRefNoFloor(secs) == DDiv(DInt(secs), DInt(365 * 24 * 3600))

TRef(secs) == DMax(DDiv(DInt(secs), DInt(365 * 24 * 3600)), Dec(1, -8))

\* numpy.linspace(start, stop, num): start + i * step for i = 0 .. num-1 with
\* step = (stop - start) / (num - 1), the last point being stop itself
\* an array: the function with every element computed once
Array(f) == f @@ <<>>

LinspaceNoEndpoint(start, stop, num) ==
    LET step == DDiv(DSub(stop, start), DInt(num))
    IN  Array([i \in 1..num |-> DAdd(DMul(DInt(i - 1), step), start)])

Linspace(start, stop, num) ==
    LET step == DDiv(DSub(stop, start), DInt(num - 1))
    IN  Array([i \in 1..num |-> IF i = num THEN stop
                                ELSE DAdd(DMul(DInt(i - 1), step), start)])

BsCallArgs(S, strike, rate, vol, T) ==
    [S |-> S, K |-> strike, r |-> rate, sigma |-> vol, T |-> T]
CallOf(a) == bs_call_put(a.S, a.K, a.r, a.sigma, a.T)

\* a loop of calls over a sequence of arguments: the results, the index of the
\* first call that raises (0 if none does) and the calls that were made
Sweep(args) == Array([i \in DOMAIN args |-> CallOf(args[i])])
FirstRaise(res) ==
    LET raised == {i \in DOMAIN res : res[i].kind = "raise"}
    IN  IF raised = {} THEN 0
        ELSE CHOOSE i \in raised : \A j \in raised : i <= j
CallsMade(args, res) ==
    LET first == FirstRaise(res)
    IN  IF first = 0 THEN {args[i] : i \in DOMAIN args}
        ELSE {args[i] : i \in 1..first}
Column(res, k) == Array([i \in DOMAIN res |-> res[i].val[k]])

\* the number of points of each sweep
PremiumPoints == 400
VegaPoints == 300
ThetaPoints == 300
RhoPoints == 200
CsvPoints == 21

\* the moments the script may be started at, as seconds left to the expiry:
\* long after it, a day before it and up to MaxYears years before it
MaxYears == 1
SecondsToExpiryValues ==
    {-25920000, 86400} \cup {31536000 * y : y \in 1..MaxYears}

NoGlobals ==
    [T_ref |-> DZero, T |-> DZero, S_range |-> <<>>, calls |-> <<>>, puts |-> <<>>,
     call_delta |-> <<>>, put_delta |-> <<>>, gamma_arr |-> <<>>,
     sigma_range |-> <<>>, vega_arr |-> <<>>, days |-> <<>>,
     call_theta_arr |-> <<>>, put_theta_arr |-> <<>>, r_range |-> <<>>,
     call_rho_arr |-> <<>>, put_rho_arr |-> <<>>]

DashInit ==
    /\ secsToExpiry \in SecondsToExpiryValues
    /\ dpc = "inputs"
    /\ g = NoGlobals
    /\ csvRow = 0
    /\ sweep = <<>>
    /\ bsCalls = {}
    /\ files = <<>>
    /\ printed = <<>>
    /\ exportFault = "untried"

\* lines 70-72: save_fig writes the PNG and prints its name
SaveFig(name, series) ==
    /\ files' = files @@ (name :> [kind |-> "png", series |-> series])
    /\ printed' = Append(printed, <<"Saved:", name>>)

\* an uncaught exception ends the script where it is
Crash ==
    /\ dpc' = "crashed"
    /\ UNCHANGED <<g, csvRow, files, printed>>

\* lines 55-67
Inputs ==
    /\ dpc = "inputs"
    /\ g' = [g EXCEPT !.T_ref = TRef(secsToExpiry)]
    /\ dpc' = "premium"
    /\ UNCHANGED <<secsToExpiry, csvRow, sweep, bsCalls, files, printed, exportFault>>

\* lines 74-104: premium against spot, 400 spots from 0.7 to 1.3 of the centre,
\* then one call at the centre for the annotation
PremiumVsSpot ==
    /\ dpc = "premium"
    /\ LET S_range == Linspace(DMul(S_center, Dec(7, -1)), DMul(S_center, Dec(13, -1)),
                               PremiumPoints)
           spot == BsCallArgs(S_center, K, r, sigma, g.T_ref)
           args == Array([i \in 1..PremiumPoints |->
                             BsCallArgs(S_range[i], K, r, sigma, g.T_ref)]) \o <<spot>>
       IN  /\ sweep' = Sweep(args)
           /\ bsCalls' = bsCalls \cup CallsMade(args, sweep')
           /\ IF FirstRaise(sweep') # 0 THEN Crash
              ELSE /\ g' = [g EXCEPT !.S_range = S_range,
                                     !.calls = SubSeq(Column(sweep', 1), 1, PremiumPoints),
                                     !.puts = SubSeq(Column(sweep', 2), 1, PremiumPoints)]
                   /\ SaveFig("premium_vs_spot.png", <<"Call Price", "Put Price">>)
                   /\ dpc' = "delta"
                   /\ UNCHANGED csvRow
    /\ UNCHANGED <<secsToExpiry, exportFault>>

\* lines 106-131: deltas and gamma over the same spots
DeltaVsSpot ==
    /\ dpc = "delta"
    /\ LET args == Array([i \in DOMAIN g.S_range |->
                             BsCallArgs(g.S_range[i], K, r, sigma, g.T_ref)])
       IN  /\ sweep' = Sweep(args)
           /\ bsCalls' = bsCalls \cup CallsMade(args, sweep')
           /\ IF FirstRaise(sweep') # 0 THEN Crash
              ELSE /\ g' = [g EXCEPT !.call_delta = Column(sweep', 3),
                                     !.put_delta = Column(sweep', 4),
                                     !.gamma_arr = Column(sweep', 5)]
                   /\ SaveFig("delta_vs_spot.png", <<"Call Delta", "Put Delta">>)
                   /\ dpc' = "gamma"
                   /\ UNCHANGED csvRow
    /\ UNCHANGED <<secsToExpiry, exportFault>>

\* lines 133-146
GammaVsSpot ==
    /\ dpc = "gamma"
    /\ SaveFig("gamma_vs_spot.png", <<"Gamma">>)
    /\ dpc' = "vega"
    /\ UNCHANGED <<secsToExpiry, g, csvRow, sweep, bsCalls, exportFault>>

\* lines 148-168: vega over 300 volatilities from 0.01 to 1.2
VegaVsVol ==
    /\ dpc = "vega"
    /\ LET sigma_range == Linspace(Dec(1, -2), Dec(12, -1), VegaPoints)
           args == Array([i \in 1..VegaPoints |->
                             BsCallArgs(S_center, K, r, sigma_range[i], g.T_ref)])
       IN  /\ sweep' = Sweep(args)
           /\ bsCalls' = bsCalls \cup CallsMade(args, sweep')
           /\ IF FirstRaise(sweep') # 0 THEN Crash
              ELSE /\ g' = [g EXCEPT !.sigma_range = sigma_range,
                                     !.vega_arr = Column(sweep', 6)]
                   /\ SaveFig("vega_vs_vol.png", <<"Vega">>)
                   /\ dpc' = "theta"
                   /\ UNCHANGED csvRow
    /\ UNCHANGED <<secsToExpiry, exportFault>>

\* int(x) for x >= 0
Trunc(a) == ToInt(a)

\* line 172
DaysMax(T_ref) ==
    IntMax(365, Trunc(DMax(DMul(T_ref, DInt(365)), DInt(30))))

\* lines 170-198: thetas over 300 times to expiry from 1 day to days_max days;
\* the loop leaves the global T at the last time it priced
ThetaVsTime ==
    /\ dpc = "theta"
    /\ LET days == Linspace(DInt(1), DInt(DaysMax(g.T_ref)), ThetaPoints)
           args == Array([i \in 1..ThetaPoints |->
                             BsCallArgs(S_center, K, r, sigma, DDiv(days[i], DInt(365)))])
       IN  /\ sweep' = Sweep(args)
           /\ bsCalls' = bsCalls \cup CallsMade(args, sweep')
           /\ IF FirstRaise(sweep') # 0
              THEN /\ dpc' = "crashed"
                   /\ g' = [g EXCEPT !.days = days, !.T = args[FirstRaise(sweep')].T]
                   /\ UNCHANGED <<csvRow, files, printed>>
              ELSE /\ g' = [g EXCEPT !.days = days, !.T = args[ThetaPoints].T,
                                     !.call_theta_arr = Column(sweep', 7),
                                     !.put_theta_arr = Column(sweep', 8)]
                   /\ SaveFig("theta_vs_time.png",
                              <<"Call Theta (per day)", "Put Theta (per day)">>)
                   /\ dpc' = "rho"
                   /\ UNCHANGED csvRow
    /\ UNCHANGED <<secsToExpiry, exportFault>>

\* line 204
eps == Dec(1, -5)

\* lines 200-226: rho over 200 rates from 0 to 0.20 by a centred difference; each
\* rate takes two calls, at rate + eps and at rate - eps
RhoVsRate ==
    /\ dpc = "rho"
    /\ LET r_range == Linspace(DZero, Dec(20, -2), RhoPoints)
           args == Array([i \in 1..(2 * RhoPoints) |->
                       BsCallArgs(S_center, K,
                                  IF i % 2 = 1 THEN DAdd(r_range[(i + 1) \div 2], eps)
                                  ELSE DSub(r_range[i \div 2], eps),
                                  sigma, g.T_ref)])
           rho(res, k) == Array([i \in 1..RhoPoints |->
                         DDiv(DSub(res[2 * i - 1].val[k], res[2 * i].val[k]),
                              DMul(DInt(2), eps))])
       IN  /\ sweep' = Sweep(args)
           /\ bsCalls' = bsCalls \cup CallsMade(args, sweep')
           /\ IF FirstRaise(sweep') # 0 THEN Crash
              ELSE /\ g' = [g EXCEPT !.r_range = r_range,
                                     !.call_rho_arr = rho(sweep', 1),
                                     !.put_rho_arr = rho(sweep', 2)]
                   /\ SaveFig("rho_vs_r.png", <<"Call Rho", "Put Rho">>)
                   /\ dpc' = "pdf"
                   /\ UNCHANGED csvRow
    /\ UNCHANGED <<secsToExpiry, exportFault>>

\* lines 228-284: one PDF of two pages with three panels each
PdfPages ==
    <<  <<"Option Premium vs Spot Price (Call & Put)", "Delta vs Spot Price",
          "Gamma vs Spot Price">>,
        <<"Vega vs Volatility", "Theta vs Time to Expiry", "Rho vs Interest Rate">>  >>

MultiPagePdf ==
    /\ dpc = "pdf"
    /\ files' = files @@ ("bs_dashboard_multi_panel.pdf" :>
                              [kind |-> "pdf", pages |-> PdfPages])
    /\ printed' = Append(printed,
                         <<"Multi-panel PDF saved to:", "bs_dashboard_multi_panel.pdf">>)
    /\ dpc' = "csv_open"
    /\ UNCHANGED <<secsToExpiry, g, csvRow, sweep, bsCalls, exportFault>>

\* line 290
CsvHeader ==
    <<"S", "CallPrice", "PutPrice", "CallDelta", "PutDelta", "Gamma", "Vega",
      "CallTheta_per_day", "PutTheta_per_day">>

CsvName == "sample_atm.csv"

\* lines 287-290: the file is opened for writing and the header row written
CsvOpen ==
    /\ dpc = "csv_open"
    /\ files' = files @@ (CsvName :> [kind |-> "csv", rows |-> <<CsvHeader>>])
    /\ csvRow' = 1
    /\ dpc' = "csv_rows"
    /\ UNCHANGED <<secsToExpiry, g, sweep, bsCalls, printed, exportFault>>

\* line 291: the spots of the CSV sweep
CsvSweepShort == LinspaceNoEndpoint(DMul(S_center, Dec(9, -1)), DMul(S_center, Dec(11, -1)),
                                    CsvPoints - 1)

CsvSweep == Linspace(DMul(S_center, Dec(9, -1)), DMul(S_center, Dec(11, -1)), CsvPoints)

\* line 292: the time to expiry the CSV rows are priced at
CsvTimeLoopVariable(globals) == globals.T

CsvTime(globals) == globals.T_ref

\* lines 291-293: one turn of the loop prices one spot and writes its row
CsvWriteRow ==
    /\ dpc = "csv_rows"
    /\ csvRow \in DOMAIN CsvSweep
    /\ LET S == CsvSweep[csvRow]
           a == BsCallArgs(S, K, r, sigma, CsvTime(g))
       IN  /\ sweep' = <<CallOf(a)>>
           /\ bsCalls' = bsCalls \cup {a}
           /\ IF sweep'[1].kind = "raise" THEN Crash
              ELSE /\ files' = [files EXCEPT
                                   ![CsvName].rows = Append(@, <<S>> \o sweep'[1].val)]
                   /\ csvRow' = csvRow + 1
                   /\ UNCHANGED <<dpc, g, printed>>
    /\ UNCHANGED <<secsToExpiry, exportFault>>

\* line 294: after the last spot the file is closed and its name printed
CsvClose ==
    /\ dpc = "csv_rows"
    /\ csvRow \notin DOMAIN CsvSweep
    /\ printed' = Append(printed, <<"CSV sample saved to:", CsvName>>)
    /\ dpc' = "plotly"
    /\ UNCHANGED <<secsToExpiry, g, csvRow, sweep, bsCalls, files, exportFault>>

\* lines 298-313: the statements of the try block that can raise, in order
ExportSteps ==
    <<"import plotly.graph_objects", "import plotly.subplots", "make_subplots",
      "add_trace Call Price", "add_trace Put Price", "add_trace Call Delta",
      "add_trace Put Delta", "add_vline Spot", "add_vline Strike", "update_layout",
      "write_html">>

HtmlName == "bs_dashboard_interactive.html"
SkipMessage ==
    <<"Plotly not installed or failed - skipping interactive HTML export (optional).">>

\* lines 315-316: what follows an exception raised inside the try block
ExportFailureUncaught(out) == [dpc |-> "crashed", printed |-> out]

ExportFailure(out) == [dpc |-> "final", printed |-> Append(out, SkipMessage)]

\* lines 296-316: the optional interactive export.  Either every statement of the
\* try block succeeds and the HTML is written and announced, or one of them raises
\* an Exception; write_html may fail having written part of the file.
PlotlyExport ==
    /\ dpc = "plotly"
    /\ \/ /\ exportFault' = "none"
          /\ files' = files @@ (HtmlName :> [kind |-> "html", complete |-> TRUE])
          /\ printed' = Append(printed, <<"Interactive HTML exported to:", HtmlName>>)
          /\ dpc' = "final"
       \/ \E i \in DOMAIN ExportSteps :
              /\ exportFault' = ExportSteps[i]
              /\ \/ files' = files
                 \/ /\ ExportSteps[i] = "write_html"
                    /\ files' = files @@ (HtmlName :> [kind |-> "html", complete |-> FALSE])
              /\ printed' = ExportFailure(printed).printed
              /\ dpc' = ExportFailure(printed).dpc
    /\ UNCHANGED <<secsToExpiry, g, csvRow, sweep, bsCalls>>

\* lines 318-319
FinalLines ==
    /\ dpc = "final"
    /\ printed' = printed \o << <<"All outputs written to folder:", "bs_dashboard_outputs">>,
                               <<"Done.">> >>
    /\ dpc' = "done"
    /\ UNCHANGED <<secsToExpiry, g, csvRow, sweep, bsCalls, files, exportFault>>

(***************************************************************************)
(* src/relationships/call_put_parity.py, statement by statement.  An array  *)
(* statement is the loop over the elements that numpy runs for it.          *)
(***************************************************************************)
VARIABLES
    ppc,    \* the statement the script is about to run
    ns,     \* the script's namespace: name -> value, arrays as sequences
    flow,   \* name -> the names its value was computed from, directly or not
    figs    \* the figures made so far, each with the lines plotted on it

parityVars == <<ppc, ns, flow, figs>>

\* line 14: the number of points of S_T
ParityPoints == 300

\* the names a value computed from the names in used depends on
Uses(used) == used \cup UNION {flow[n] : n \in used \cap DOMAIN flow}

Bind(name, value, used) ==
    /\ ns' = (name :> value) @@ ns
    /\ flow' = (name :> Uses(used)) @@ flow

\* the index of the element an array statement computes next
NextIndex(name) == IF name \in DOMAIN ns THEN Len(ns[name]) + 1 ELSE 1

\* one element of an array statement: the next element of name is elem; after the
\* last element the script goes on to the statement next
Elementwise(name, used, next, elem) ==
    /\ ppc = name
    /\ Bind(name, IF name \in DOMAIN ns THEN Append(ns[name], elem) ELSE <<elem>>, used)
    /\ ppc' = IF NextIndex(name) = ParityPoints THEN next ELSE name
    /\ UNCHANGED figs

ParityInit == ppc = "parameters" /\ ns = <<>> /\ flow = <<>> /\ figs = <<>>

\* lines 5-11
Parameters ==
    /\ ppc = "parameters"
    /\ ns' = [S0 |-> DInt(100), K |-> DInt(95), put_premium |-> DInt(4),
              call_premium |-> DInt(4), r |-> Dec(5, -2), T |-> DInt(1),
              PV_K |-> DDiv(DInt(95), DExp(DMul(Dec(5, -2), DInt(1))))]
    /\ flow' = [n \in {"S0", "K", "put_premium", "call_premium", "r", "T"} |-> {}]
               @@ ("PV_K" :> {"K", "r", "T"})
    /\ ppc' = "S_T"
    /\ UNCHANGED figs

\* line 14
SweepRangeAt(i) == Linspace(DInt(50), DInt(150), ParityPoints)[i]
SweepRange == Elementwise("S_T", {}, "stock_payoff", SweepRangeAt(NextIndex("S_T")))

\* line 17
StockPayoffAt(i) == DSub(ns.S_T[i], ns.S0)
StockPayoff ==
    Elementwise("stock_payoff", {"S_T", "S0"}, "put_payoff",
                StockPayoffAt(NextIndex("stock_payoff")))

\* line 18
PutPayoffAt(i) == DSub(DMax(DSub(ns.K, ns.S_T[i]), DZero), ns.put_premium)
PutPayoff ==
    Elementwise("put_payoff", {"K", "S_T", "put_premium"}, "protective_put_total",
                PutPayoffAt(NextIndex("put_payoff")))

\* line 19
ProtectivePutTotalAt(i) == DAdd(ns.stock_payoff[i], ns.put_payoff[i])
ProtectivePutTotal ==
    Elementwise("protective_put_total", {"stock_payoff", "put_payoff"}, "call_payoff",
                ProtectivePutTotalAt(NextIndex("protective_put_total")))

\* line 22
CallPayoffAt(i) == DSub(DMax(DSub(ns.S_T[i], ns.K), DZero), ns.call_premium)
CallPayoff ==
    Elementwise("call_payoff", {"S_T", "K", "call_premium"}, "bond_payoff",
                CallPayoffAt(NextIndex("call_payoff")))

\* line 23
BondPayoff ==
    /\ ppc = "bond_payoff"
    /\ Bind("bond_payoff",
            DSub(DMul(ns.PV_K, DExp(DMul(ns.r, ns.T))), ns.PV_K), {"PV_K", "r", "T"})
    /\ ppc' = "fiduciary_call_total"
    /\ UNCHANGED figs

\* line 24
FiduciaryCallTotalWithBondAt(i) == DAdd(ns.call_payoff[i], ns.bond_payoff)

FiduciaryCallTotalAt(i) == DAdd(ns.call_payoff[i], DSub(ns.K, ns.K))
FiduciaryCallTotal ==
    Elementwise("fiduciary_call_total", {"call_payoff", "K"}, "plot_protective_put",
                FiduciaryCallTotalAt(NextIndex("fiduciary_call_total")))

\* plt.plot(x, y, label): the line drawn, with the names of its two series
PlottedLine(x, y, label) ==
    [x |-> x, y |-> y, xs |-> ns[x], ys |-> ns[y], label |-> label,
     uses |-> Uses({x, y})]

\* plt.figure() ... plt.grid(True)
Figure(x, y, title, next) ==
    /\ figs' = Append(figs, [lines |-> <<PlottedLine(x, y, title)>>, title |-> title,
                             xlabel |-> "Stock Price at Expiration",
                             ylabel |-> "Profit / Loss", shown |-> FALSE])
    /\ ppc' = next
    /\ UNCHANGED <<ns, flow>>

\* plt.show()
Show(next) ==
    /\ figs' = [figs EXCEPT ![Len(figs)].shown = TRUE]
    /\ ppc' = next
    /\ UNCHANGED <<ns, flow>>

\* lines 27-34
PlotProtectivePut ==
    /\ ppc = "plot_protective_put"
    /\ Figure("S_T", "protective_put_total", "Protective Put Payoff",
              "show_protective_put")

\* line 35
ShowProtectivePut == ppc = "show_protective_put" /\ Show("plot_fiduciary_call")

\* lines 38-45
PlotFiduciaryCall ==
    /\ ppc = "plot_fiduciary_call"
    /\ Figure("S_T", "fiduciary_call_total", "Fiduciary Call Payoff",
              "show_fiduciary_call")

\* line 46
ShowFiduciaryCall == ppc = "show_fiduciary_call" /\ Show("end")

(***************************************************************************)
(* src/strategies/covered_call.py, statement by statement.  The numbers are *)
(* exact rationals: on the swept prices every subtraction and addition of   *)
(* the script is exact in doubles, and no swept price is within 0.04 of the *)
(* strike or of the breakeven price.                                        *)
(***************************************************************************)
VARIABLES
    cpc,      \* the statement the script is about to run
    cc,       \* the script's namespace: name -> value, arrays as sequences
    artists   \* what has been drawn on the figure, in order

coveredVars == <<cpc, cc, artists>>

\* line 8: the number of swept prices
CoveredPoints == 500

\* numpy.linspace(start, stop, num)[i] in exact arithmetic
RLinspaceAt(start, stop, num, i) ==
    IF i = num THEN stop
    ELSE RAdd(start, RMul(RInt(i - 1), RDiv(RSub(stop, start), RInt(num - 1))))

CoveredNextIndex(name) == IF name \in DOMAIN cc THEN Len(cc[name]) + 1 ELSE 1

\* one element of an array statement; after the last one the script goes on
CoveredElementwise(name, next, elem) ==
    /\ cpc = name
    /\ cc' = (name :> (IF name \in DOMAIN cc THEN Append(cc[name], elem) ELSE <<elem>>))
             @@ cc
    /\ cpc' = IF CoveredNextIndex(name) = CoveredPoints THEN next ELSE name
    /\ UNCHANGED artists

CoveredInit == cpc = "parameters" /\ cc = <<>> /\ artists = <<>>

\* lines 5-7
CoveredParameters ==
    /\ cpc = "parameters"
    /\ cc' = [S0 |-> RInt(100), K |-> RInt(105), Premium |-> RInt(5)]
    /\ cpc' = "ST"
    /\ UNCHANGED artists

\* line 8
CoveredSweep ==
    CoveredElementwise("ST", "profit_stock",
                       RLinspaceAt(RInt(80), RInt(130), CoveredPoints,
                                   CoveredNextIndex("ST")))

\* line 13
ProfitStockAt(i) == RSub(cc.ST[i], cc.S0)
ProfitStock ==
    CoveredElementwise("profit_stock", "profit_short_call",
                       ProfitStockAt(CoveredNextIndex("profit_stock")))

\* line 17
ProfitShortCallNoCapAt(i) == RSub(cc.Premium, RMax(RSub(cc.K, cc.ST[i]), RZero))

ProfitShortCallAt(i) == RSub(cc.Premium, RMax(RSub(cc.ST[i], cc.K), RZero))
ProfitShortCall ==
    CoveredElementwise("profit_short_call", "profit_covered_call",
                       ProfitShortCallAt(CoveredNextIndex("profit_short_call")))

\* line 20
ProfitCoveredCallAt(i) == RAdd(cc.profit_stock[i], cc.profit_short_call[i])
ProfitCoveredCall ==
    CoveredElementwise("profit_covered_call", "plot_components",
                       ProfitCoveredCallAt(CoveredNextIndex("profit_covered_call")))

\* plt.plot(ST, y, label=...)
CoveredLine(y, label) ==
    [kind |-> "line", y |-> y, xs |-> cc.ST, ys |-> cc[y], label |-> label]

Draw(drawn, next) ==
    /\ artists' = artists \o drawn
    /\ cpc' = next

\* lines 24-40: the figure and the two dashed component lines
PlotComponents ==
    /\ cpc = "plot_components"
    /\ Draw(<<CoveredLine("profit_stock", "Long Stock (Component A)"),
              CoveredLine("profit_short_call", "Short Call (Component B)")>>,
            "plot_covered_call")
    /\ UNCHANGED cc

\* lines 43-44: the strategy line
PlotCoveredCall ==
    /\ cpc = "plot_covered_call"
    /\ Draw(<<CoveredLine("profit_covered_call", "Covered Call (Result)")>>, "zones")
    /\ UNCHANGED cc

\* lines 51-54: where the strategy is in profit and where it is in loss
ProfitZone == {i \in DOMAIN cc.profit_covered_call : RLe(RZero, cc.profit_covered_call[i])}
LossZone == {i \in DOMAIN cc.profit_covered_call : RLt(cc.profit_covered_call[i], RZero)}

\* lines 47-54: zero line, strike line and the two filled zones
Zones ==
    /\ cpc = "zones"
    /\ Draw(<<[kind |-> "axhline", at |-> RZero], [kind |-> "axvline", at |-> cc.K],
              [kind |-> "fill", where |-> ProfitZone, color |-> "profit_fill"],
              [kind |-> "fill", where |-> LossZone, color |-> "loss_fill"]>>,
            "breakeven")
    /\ UNCHANGED cc

\* lines 59-63
Breakeven ==
    /\ cpc = "breakeven"
    /\ cc' = ("breakeven_price" :> RSub(cc.S0, cc.Premium)) @@ cc
    /\ Draw(<<[kind |-> "point", x |-> cc'.breakeven_price, y |-> RZero,
               text |-> <<"Breakeven", cc'.breakeven_price>>]>>,
            "max_profit")

\* lines 66-69
MaxProfit ==
    /\ cpc = "max_profit"
    /\ cc' = ("max_profit" :> RAdd(RSub(cc.K, cc.S0), cc.Premium)) @@ cc
    /\ Draw(<<[kind |-> "point", x |-> cc.K, y |-> cc'.max_profit,
               text |-> <<"Max Profit Capped at", cc'.max_profit>>]>>,
            "show")

\* lines 72-87: the cushion note, title, labels, legend, limits and plt.show()
CoveredShow ==
    /\ cpc = "show"
    /\ Draw(<<[kind |-> "note", x |-> RInt(98), y |-> RInt(-2)],
              [kind |-> "limits", xlim |-> <<RInt(80), RInt(130)>>,
               ylim |-> <<RInt(-20), RInt(20)>>]>>,
            "end")
    /\ UNCHANGED cc

(***************************************************************************)
(* Specifications: one per program; the other programs' variables rest     *)
(***************************************************************************)
vars == <<binomVars, bsVars, dashVars, parityVars, coveredVars>>

BinomIdle == bArgs = NoCall /\ bRet = NoCall /\ mainPc = "call" /\ call = NoCall
             /\ put = NoCall /\ stdout = <<>>
BsIdle == bsArgs = NoCall /\ bsRet = NoCall
DashIdle == secsToExpiry = 0 /\ dpc = "idle" /\ g = NoGlobals /\ csvRow = 0 /\ bsCalls = {}
            /\ sweep = <<>>
            /\ files = <<>> /\ printed = <<>> /\ exportFault = "untried"
ParityIdle == ppc = "idle" /\ ns = <<>> /\ flow = <<>> /\ figs = <<>>
CoveredIdle == cpc = "idle" /\ cc = <<>> /\ artists = <<>>

BinomNext ==
    \/ Invoke /\ UNCHANGED <<bsVars, dashVars, parityVars, coveredVars>>
    \/ MainCall /\ UNCHANGED <<bsVars, dashVars, parityVars, coveredVars>>
    \/ MainPut /\ UNCHANGED <<bsVars, dashVars, parityVars, coveredVars>>

BinomStart == BinomInit /\ BsIdle /\ DashIdle /\ ParityIdle /\ CoveredIdle
SpecBinomial == BinomStart /\ [][BinomNext]_vars

BsNext == BsInvoke /\ UNCHANGED <<binomVars, dashVars, parityVars, coveredVars>>

BsStart == BsInit /\ BinomIdle /\ DashIdle /\ ParityIdle /\ CoveredIdle
SpecBS == BsStart /\ [][BsNext]_vars

DashNext ==
    \/ Inputs /\ UNCHANGED <<binomVars, bsVars, parityVars, coveredVars>>
    \/ PremiumVsSpot /\ UNCHANGED <<binomVars, bsVars, parityVars, coveredVars>>
    \/ DeltaVsSpot /\ UNCHANGED <<binomVars, bsVars, parityVars, coveredVars>>
    \/ GammaVsSpot /\ UNCHANGED <<binomVars, bsVars, parityVars, coveredVars>>
    \/ VegaVsVol /\ UNCHANGED <<binomVars, bsVars, parityVars, coveredVars>>
    \/ ThetaVsTime /\ UNCHANGED <<binomVars, bsVars, parityVars, coveredVars>>
    \/ RhoVsRate /\ UNCHANGED <<binomVars, bsVars, parityVars, coveredVars>>
    \/ MultiPagePdf /\ UNCHANGED <<binomVars, bsVars, parityVars, coveredVars>>
    \/ CsvOpen /\ UNCHANGED <<binomVars, bsVars, parityVars, coveredVars>>
    \/ CsvWriteRow /\ UNCHANGED <<binomVars, bsVars, parityVars, coveredVars>>
    \/ CsvClose /\ UNCHANGED <<binomVars, bsVars, parityVars, coveredVars>>
    \/ PlotlyExport /\ UNCHANGED <<binomVars, bsVars, parityVars, coveredVars>>
    \/ FinalLines /\ UNCHANGED <<binomVars, bsVars, parityVars, coveredVars>>

DashStart == DashInit /\ BinomIdle /\ BsIdle /\ ParityIdle /\ CoveredIdle
SpecDashboard == DashStart /\ [][DashNext]_vars

ParityNext ==
    \/ Parameters /\ UNCHANGED <<binomVars, bsVars, dashVars, coveredVars>>
    \/ SweepRange /\ UNCHANGED <<binomVars, bsVars, dashVars, coveredVars>>
    \/ StockPayoff /\ UNCHANGED <<binomVars, bsVars, dashVars, coveredVars>>
    \/ PutPayoff /\ UNCHANGED <<binomVars, bsVars, dashVars, coveredVars>>
    \/ ProtectivePutTotal /\ UNCHANGED <<binomVars, bsVars, dashVars, coveredVars>>
    \/ CallPayoff /\ UNCHANGED <<binomVars, bsVars, dashVars, coveredVars>>
    \/ BondPayoff /\ UNCHANGED <<binomVars, bsVars, dashVars, coveredVars>>
    \/ FiduciaryCallTotal /\ UNCHANGED <<binomVars, bsVars, dashVars, coveredVars>>
    \/ PlotProtectivePut /\ UNCHANGED <<binomVars, bsVars, dashVars, coveredVars>>
    \/ ShowProtectivePut /\ UNCHANGED <<binomVars, bsVars, dashVars, coveredVars>>
    \/ PlotFiduciaryCall /\ UNCHANGED <<binomVars, bsVars, dashVars, coveredVars>>
    \/ ShowFiduciaryCall /\ UNCHANGED <<binomVars, bsVars, dashVars, coveredVars>>

ParityStart == ParityInit /\ BinomIdle /\ BsIdle /\ DashIdle /\ CoveredIdle
SpecParity == ParityStart /\ [][ParityNext]_vars

CoveredNext ==
    \/ CoveredParameters /\ UNCHANGED <<binomVars, bsVars, dashVars, parityVars>>
    \/ CoveredSweep /\ UNCHANGED <<binomVars, bsVars, dashVars, parityVars>>
    \/ ProfitStock /\ UNCHANGED <<binomVars, bsVars, dashVars, parityVars>>
    \/ ProfitShortCall /\ UNCHANGED <<binomVars, bsVars, dashVars, parityVars>>
    \/ ProfitCoveredCall /\ UNCHANGED <<binomVars, bsVars, dashVars, parityVars>>
    \/ PlotComponents /\ UNCHANGED <<binomVars, bsVars, dashVars, parityVars>>
    \/ PlotCoveredCall /\ UNCHANGED <<binomVars, bsVars, dashVars, parityVars>>
    \/ Zones /\ UNCHANGED <<binomVars, bsVars, dashVars, parityVars>>
    \/ Breakeven /\ UNCHANGED <<binomVars, bsVars, dashVars, parityVars>>
    \/ MaxProfit /\ UNCHANGED <<binomVars, bsVars, dashVars, parityVars>>
    \/ CoveredShow /\ UNCHANGED <<binomVars, bsVars, dashVars, parityVars>>

CoveredStart == CoveredInit /\ BinomIdle /\ BsIdle /\ DashIdle /\ ParityIdle
SpecCovered == CoveredStart /\ [][CoveredNext]_vars

(***************************************************************************)
(* Claims about binomial_CPT_paper                                         *)
(***************************************************************************)
RAbs(a) == [n |-> Abs(a.n), d |-> a.d]
\* x is a whole number of hundredths
IsCent(x) == 100 % x.d = 0
\* y is x rounded to the nearest hundredth (either neighbour at a tie)
IsRounded2(y, x) == IsCent(y) /\ RLe(RAbs(RSub(y, x)), Rat(1, 200))

AllKeys ==
    {"S0", "Su", "Sd", "Cu", "Cd", "R", "p", "Expected Payoff", "Delta", "Bond", "Price"}

IsMainInput(a) ==
    /\ a.S0 = RInt(100) /\ a.K = RInt(110) /\ a.r = Rat(5, 100)
    /\ a.T = RInt(1) /\ a.u = Rat(16, 10) /\ a.d = Rat(7, 10)

CallValues(o) ==
    /\ o.kind = "return"
    /\ o.val["p"] = Rat(39, 100)
    /\ o.val["Cu"] = RInt(50)
    /\ o.val["Cd"] = RInt(0)
    /\ o.val["Expected Payoff"] = Rat(195, 10)
    /\ o.val["Price"] = Rat(1857, 100)
    /\ o.val["Delta"] = Rat(56, 100)
    /\ o.val["Bond"] = Rat(-3743, 100)

PutValues(o) ==
    /\ o.kind = "return"
    /\ o.val["Cu"] = RInt(0)
    /\ o.val["Cd"] = RInt(40)
    /\ o.val["Price"] = Rat(2324, 100)

\* C1: for S0=100, K=110, r=0.05, T=1, u=1.6, d=0.7 the call returns p=0.39, Cu=50,
\* Cd=0, Expected Payoff=19.5, Price=18.57, Delta=0.56, Bond=-37.43 and the put
\* returns Cu=0, Cd=40, Price=23.24: both for the script's own two calls and for
\* any caller passing these inputs.
C1_PaperExample ==
    /\ call # NoCall => CallValues(call)
    /\ put # NoCall => PutValues(put)
    /\ (bRet # NoCall /\ IsMainInput(bArgs) /\ bArgs.option = "call") => CallValues(bRet)
    /\ (bRet # NoCall /\ IsMainInput(bArgs) /\ bArgs.option = "put") => PutValues(bRet)

\* C1 witness: the script has priced and printed both options, and a caller
\* has priced the call with the same inputs
C1_Witness ==
    /\ mainPc = "done" /\ Len(stdout) = 2
    /\ bRet # NoCall /\ IsMainInput(bArgs) /\ bArgs.option = "call"

\* C2: in a returned dictionary p, Price, Delta and Bond are each the rounding to
\* two decimals of the value computed from the already-rounded quantities before
\* them, and Su, Sd, Cu, Cd, R and the expected payoff are not rounded: the
\* expected payoff is exactly p*Cu + (1-p)*Cd for the rounded p that is returned,
\* and Price is the rounding of that expected payoff over R.
C2_RoundingPoints ==
    bRet.kind = "return" =>
        LET v == bRet.val
            a == bArgs
            R == RAdd(ROne, RMul(a.r, a.T))
            Su == RMul(a.S0, a.u)
            Sd == RMul(a.S0, a.d)
            lo(x) == IF a.option = "call" THEN RSub(x, a.K) ELSE RSub(a.K, x)
            pos(x) == IF RLt(x, RZero) THEN RZero ELSE x
        IN  /\ v["S0"] = a.S0 /\ v["Su"] = Su /\ v["Sd"] = Sd /\ v["R"] = R
            /\ v["Cu"] = pos(lo(Su)) /\ v["Cd"] = pos(lo(Sd))
            /\ IsRounded2(v["p"], RDiv(RSub(R, a.d), RSub(a.u, a.d)))
            /\ v["Expected Payoff"] =
                   RAdd(RMul(v["p"], v["Cu"]), RMul(RSub(ROne, v["p"]), v["Cd"]))
            /\ IsRounded2(v["Price"], RDiv(v["Expected Payoff"], R))
            /\ IsRounded2(v["Delta"], RDiv(RSub(v["Cu"], v["Cd"]), RSub(Su, Sd)))
            /\ IsRounded2(v["Bond"], RSub(v["Price"], RMul(v["Delta"], a.S0)))

\* C2 witness: a returned Price that the unrounded (R-d)/(u-d) would not give, with
\* an expected payoff that is not a whole number of hundredths
C2_Witness ==
    /\ bRet.kind = "return"
    /\ LET a == bArgs
           R == RAdd(ROne, RMul(a.r, a.T))
           pExact == RDiv(RSub(R, a.d), RSub(a.u, a.d))
           v == bRet.val
           eExact == RAdd(RMul(pExact, v["Cu"]), RMul(RSub(ROne, pExact), v["Cd"]))
       IN  /\ ~IsRounded2(v["Price"], RDiv(eExact, R))
           /\ ~IsCent(v["Expected Payoff"])

IsZeroDivision(o) == o.kind = "raise" /\ o.exc = "ZeroDivisionError"

\* C3 as stated: with u = d the call fails with a divide-by-zero; with u # d and
\* S0 # 0 no divide-by-zero occurs and a dictionary with all eleven keys is returned
C3_Original ==
    bRet # NoCall =>
        /\ bArgs.u = bArgs.d => IsZeroDivision(bRet)
        /\ (bArgs.u # bArgs.d /\ bArgs.S0 # RZero) =>
               (bRet.kind = "return" /\ DOMAIN bRet.val = AllKeys)

\* C3 amended: with u = d the call fails with a divide-by-zero and returns nothing;
\* with u # d, S0 # 0 and 1 + r*T # 0 no divide-by-zero occurs and a dictionary
\* with all eleven keys is returned; with u # d and 1 + r*T = 0 the division by
\* R on line 31 fails with a divide-by-zero.
C3_DivideByZero ==
    bRet # NoCall =>
        LET R == RAdd(ROne, RMul(bArgs.r, bArgs.T))
        IN  /\ bArgs.u = bArgs.d => IsZeroDivision(bRet)
            /\ (bArgs.u # bArgs.d /\ bArgs.S0 # RZero /\ R # RZero) =>
                   (bRet.kind = "return" /\ DOMAIN bRet.val = AllKeys)
            /\ (bArgs.u # bArgs.d /\ R = RZero) => IsZeroDivision(bRet)

\* C3 witness: a call with u # d and S0 # 0 that fails on the division by R = 0
C3_Witness ==
    /\ bArgs.u # bArgs.d /\ bArgs.S0 # RZero
    /\ IsZeroDivision(bRet) /\ bRet.line = 31

(***************************************************************************)
(* Claims about bs_call_put                                                *)
(***************************************************************************)
\* C4: with T <= 0, whatever S, K, r and sigma are, the result is call = max(S-K, 0),
\* put = max(K-S, 0), call delta = 1 if S > K else 0, put delta = call delta - 1,
\* and gamma, vega and both thetas 0; r and sigma do not enter.
C4_ExpiryBoundary ==
    (bsRet # NoCall /\ bsArgs.T.m <= 0) =>
        LET s == ToInt(bsArgs.S)
            k == ToInt(bsArgs.K)
            cd == IF s > k THEN 1 ELSE 0
        IN  bsRet = [kind |-> "return",
                     val |-> <<DInt(IntMax(s - k, 0)), DInt(IntMax(k - s, 0)),
                               DInt(cd), DInt(cd - 1), DZero, DZero, DZero, DZero>>]

\* C4 witness: a call at expiry with S = K <= 0 and sigma <= 0 has returned, with
\* call delta 0
C4_Witness ==
    /\ bsArgs.T.m <= 0 /\ bsArgs.S = bsArgs.K /\ bsArgs.S.m <= 0 /\ bsArgs.sigma.m <= 0
    /\ bsRet.kind = "return" /\ bsRet.val[3] = DZero

\* C6: in every returned tuple, of either branch, call delta - put delta = 1
C6_DeltaConsistency ==
    bsRet.kind = "return" => DSub(bsRet.val[3], bsRet.val[4]) = DOne

\* C6 witness: a call with T > 0 has returned a call delta strictly between 0 and
\* 0.1, for which call delta - 1 is not a representable number
C6_Witness ==
    /\ bsArgs.T.m > 0 /\ bsRet.kind = "return"
    /\ bsRet.val[3].m > 0 /\ DLt(bsRet.val[3], Dec(1, -1))

IsNumericError(o) == o.kind = "raise" /\ o.exc \in {"ZeroDivisionError", "ValueError"}
Degenerate(a) == a.S.m <= 0 \/ a.K.m <= 0 \/ a.sigma.m <= 0
\* S / K <= 0: S is zero or S and K have opposite signs (K # 0)
RatioNotPositive(a) == Sign(a.S.m) * Sign(a.K.m) <= 0

\* C9 as stated: every call with S <= 0, K <= 0 or sigma <= 0 raises a numeric error
\* and returns no tuple
C9_Original ==
    (bsRet # NoCall /\ Degenerate(bsArgs)) => bsRet.kind = "raise"

\* C9: a call with T > 0 and K = 0, S/K <= 0 or sigma = 0 raises a
\* ZeroDivisionError or ValueError and returns no tuple; a call with T <= 0 returns
\* a tuple whatever S, K and sigma are, and so does a call of moderate magnitudes
\* with T > 0, S/K > 0 and sigma # 0, which includes S and K both negative and
\* sigma negative.
C9_Degeneracy ==
    bsRet # NoCall =>
        IF bsArgs.T.m > 0 /\ (bsArgs.K.m = 0 \/ RatioNotPositive(bsArgs) \/ bsArgs.sigma.m = 0)
        THEN IsNumericError(bsRet)
        ELSE bsRet.kind = "return"

\* C9 witness: a call with T > 0, S = 0 and a positive strike has failed in log
C9_Witness ==
    /\ bsArgs.T.m > 0 /\ bsArgs.S.m = 0 /\ bsArgs.K.m > 0
    /\ bsRet = Raise("ValueError", 36)

(***************************************************************************)
(* Claims about the dashboard script                                       *)
(***************************************************************************)
CsvWritten == dpc \in {"plotly", "final", "done"}

\* the i-th spot of the sweep from 0.9 * S_center = 73800 to 1.1 * S_center = 90200
CsvSpot(i) == DInt(73800 + 820 * (i - 1))

CsvRowOf(S) == <<S>> \o bs_call_put(S, K, r, sigma, TRef(secsToExpiry)).val

\* C7: the CSV starts with the header row of nine column names and, once written,
\* holds exactly 21 data rows after it, one per spot from 0.9 * S_center to
\* 1.1 * S_center in increasing order, each row being the spot followed by the
\* eight values of bs_call_put(S, K, r, sigma, T_ref); while it is being written
\* the rows so far are the first rows of that table.
C7_CsvTable ==
    CsvName \in DOMAIN files =>
        LET rows == files[CsvName].rows
        IN  /\ Len(rows) >= 1
            /\ rows[1] = CsvHeader
            /\ Len(CsvHeader) = 9
            /\ Len(rows) <= 22
            /\ CsvWritten => Len(rows) = 22
            /\ \A i \in 1..(Len(rows) - 1) :
                   /\ rows[i + 1] = CsvRowOf(CsvSpot(i))
                   /\ Len(rows[i + 1]) = 9
                   /\ i > 1 => DLt(rows[i][1], rows[i + 1][1])

C7_Witness ==
    /\ dpc = "done"
    /\ secsToExpiry > 0
    /\ Len(files[CsvName].rows) = 22
    /\ files[CsvName].rows[2][1] = DMul(S_center, Dec(9, -1))
    /\ files[CsvName].rows[22][1] = DMul(S_center, Dec(11, -1))

PngNames ==
    {"premium_vs_spot.png", "delta_vs_spot.png", "gamma_vs_spot.png",
     "vega_vs_vol.png", "theta_vs_time.png", "rho_vs_r.png"}
EarlierOutputs == PngNames \cup {"bs_dashboard_multi_panel.pdf", CsvName}
ExportFailed == exportFault \notin {"untried", "none"}
LastLines(n) == SubSeq(printed, Len(printed) - n + 1, Len(printed))

\* C8: the export is attempted only when the six PNGs, the PDF and the whole CSV are
\* on disk; a failure at any statement of the export leaves the script running,
\* prints the skip message and leaves those eight files as they were; the script
\* then prints the output-folder line and "Done." and never ends in a crash.
C8_ExportNonFatal ==
    /\ [](dpc = "plotly" =>
            /\ EarlierOutputs \subseteq DOMAIN files
            /\ Cardinality(PngNames) = 6
            /\ Len(files["bs_dashboard_multi_panel.pdf"].pages) = 2
            /\ Len(files[CsvName].rows) = 22)
    /\ [](ExportFailed =>
            /\ dpc \in {"final", "done"}
            /\ dpc = "final" => LastLines(1) = <<SkipMessage>>
            /\ dpc = "done" =>
                  LastLines(3) = <<SkipMessage,
                                   <<"All outputs written to folder:", "bs_dashboard_outputs">>,
                                   <<"Done.">> >>)
    /\ [][dpc = "plotly" =>
            /\ \A n \in EarlierOutputs : n \in DOMAIN files' /\ files'[n] = files[n]
            /\ exportFault' \notin {"untried", "none"} =>
                  dpc' = "final" /\ printed' = Append(printed, SkipMessage)]_vars

C8_Witness ==
    /\ dpc = "done"
    /\ exportFault = "write_html"
    /\ HtmlName \in DOMAIN files
    /\ ~files[HtmlName].complete
    /\ EarlierOutputs \subseteq DOMAIN files

(***************************************************************************)
(* Claims about the call-put-parity script                                 *)
(***************************************************************************)
PlottedLines == {figs[k].lines[1] : k \in DOMAIN figs}
Touches(line, name) == name \in line.uses

\* the statement as the specification words it: no plotted series is, or is
\* computed from, bond_payoff or fiduciary_call_total
C10_Original ==
    \A line \in PlottedLines :
        ~Touches(line, "bond_payoff") /\ ~Touches(line, "fiduciary_call_total")

\* C10: bond_payoff is dead: no value and no plotted series is, or is computed
\* from, it.  fiduciary_call_total is live: it is the series of the one line of
\* the second figure, plotted against S_T, and its values are those of call_payoff.
C10_DeadCode ==
    /\ \A n \in DOMAIN flow : "bond_payoff" \notin flow[n]
    /\ \A line \in PlottedLines : ~Touches(line, "bond_payoff")
    /\ Len(figs) >= 2 =>
          /\ Len(figs[2].lines) = 1
          /\ figs[2].lines[1].x = "S_T"
          /\ figs[2].lines[1].y = "fiduciary_call_total"
          /\ figs[2].lines[1].ys = ns.fiduciary_call_total
          /\ figs[2].lines[1].ys = ns.call_payoff
          /\ Len(figs[2].lines[1].ys) = ParityPoints
    /\ Len(figs) >= 1 => figs[1].lines[1].y = "protective_put_total"

C10_Witness ==
    /\ ppc = "end"
    /\ Len(figs) = 2
    /\ figs[2].shown
    /\ "bond_payoff" \in DOMAIN ns
    /\ Touches(figs[2].lines[1], "fiduciary_call_total")

(***************************************************************************)
(* Claims about the covered-call script                                    *)
(***************************************************************************)
StrategyLines ==
    {artists[k] : k \in {j \in DOMAIN artists : artists[j].kind = "line"
                                                /\ artists[j].y = "profit_covered_call"}}
CoveredCap == RInt((105 - 100) + 5)
CoveredBreakeven == RInt(100 - 5)
CoveredFormula(ST) ==
    RSub(RAdd(RSub(ST, RInt(100)), RInt(5)), RMax(RSub(ST, RInt(105)), RZero))

\* C11: at every swept price ST the plotted strategy profit is
\* (ST - S0) + Premium - max(ST - K, 0); it is at most the cap (K - S0) + Premium
\* and equals it exactly when ST >= K; below K it grows strictly with ST; it is
\* zero exactly when ST is the breakeven price S0 - Premium, negative below it and
\* non-negative from it on; the annotated cap and breakeven price are those values.
C11_CoveredCallProfit ==
    /\ \A line \in StrategyLines :
          /\ Len(line.xs) = CoveredPoints /\ Len(line.ys) = CoveredPoints
          /\ \A i \in DOMAIN line.xs :
                /\ line.ys[i] = CoveredFormula(line.xs[i])
                /\ RLe(line.ys[i], CoveredCap)
                /\ (line.ys[i] = CoveredCap) <=> RLe(RInt(105), line.xs[i])
                /\ (i > 1 /\ RLt(line.xs[i], RInt(105))) =>
                      RLt(line.xs[i - 1], line.xs[i]) /\ RLt(line.ys[i - 1], line.ys[i])
                /\ (line.ys[i] = RZero) <=> (line.xs[i] = CoveredBreakeven)
                /\ RLt(line.xs[i], CoveredBreakeven) => RLt(line.ys[i], RZero)
                /\ RLe(CoveredBreakeven, line.xs[i]) => RLe(RZero, line.ys[i])
    /\ "breakeven_price" \in DOMAIN cc => cc.breakeven_price = CoveredBreakeven
    /\ "max_profit" \in DOMAIN cc => cc.max_profit = CoveredCap

\* C11 witness: the script has ended with the strategy line drawn; the line has a
\* point in loss below the breakeven price, a point in profit below the strike
\* and a point at the cap above the strike
C11_Witness ==
    /\ cpc = "end"
    /\ cc.max_profit = CoveredCap /\ cc.breakeven_price = CoveredBreakeven
    /\ \E line \in StrategyLines :
          /\ \E i \in DOMAIN line.xs :
                RLt(line.xs[i], CoveredBreakeven) /\ RLt(line.ys[i], RZero)
          /\ \E i \in DOMAIN line.xs :
                RLt(line.xs[i], RInt(105)) /\ RLt(RZero, line.ys[i])
          /\ \E i \in DOMAIN line.xs :
                RLt(RInt(105), line.xs[i]) /\ line.ys[i] = CoveredCap

(***************************************************************************)
(* Claims about the arguments the dashboard script calls bs_call_put with   *)
(***************************************************************************)
\* C12: whenever the dashboard script is started, before or after the expiry,
\* every call of bs_call_put it makes has T > 0, S > 0, K > 0 and sigma > 0, so no
\* call takes the T <= 0 branch, no call raises and the script never ends in an
\* uncaught exception; T_ref is at least the floor 1e-8.
C12_PositiveArguments ==
    /\ \A a \in bsCalls :
          /\ a.T.m > 0 /\ a.S.m > 0 /\ a.K.m > 0 /\ a.sigma.m > 0
          /\ ~AtOrAfterExpiry(a.T)
    /\ \A i \in DOMAIN sweep : sweep[i].kind = "return"
    /\ dpc # "crashed"
    /\ dpc \notin {"idle", "inputs"} => DLe(Dec(1, -8), g.T_ref)

\* C12 witness: a run started after the expiry has finished; its calls include
\* the floored time 1e-8, the theta sweep's first time of one day, the lowest
\* swept spot 0.7 * S_center and the lowest swept volatility 0.01
C12_Witness ==
    /\ dpc = "done"
    /\ secsToExpiry < 0
    /\ g.T_ref = Dec(1, -8)
    /\ BsCallArgs(DMul(S_center, Dec(7, -1)), K, r, sigma, Dec(1, -8)) \in bsCalls
    /\ BsCallArgs(S_center, K, r, Dec(1, -2), Dec(1, -8)) \in bsCalls
    /\ BsCallArgs(S_center, K, r, sigma, DDiv(DInt(1), DInt(365))) \in bsCalls

(***************************************************************************)
(* Claims about binomial_CPT_paper under the no-arbitrage constraint       *)
(***************************************************************************)
ArgR == RAdd(ROne, RMul(bArgs.r, bArgs.T))
NoArbitrage == RLt(bArgs.d, ArgR) /\ RLt(ArgR, bArgs.u)
PositiveSpot == RLt(RZero, bArgs.S0) /\ RLe(RZero, bArgs.K)
ProbabilityInRange(o) == RLe(RZero, o.val["p"]) /\ RLe(o.val["p"], ROne)
PriceNonNegative(o) == RLe(RZero, o.val["Price"])

\* the statement as the specification words it: with S0 > 0, K >= 0 and
\* d < 1 + rT < u the call returns p in [0, 1] and Price >= 0; with the constraint
\* violated and u # d it still returns a result
C13_Original ==
    bRet # NoCall =>
        /\ (PositiveSpot /\ NoArbitrage) =>
               bRet.kind = "return" /\ ProbabilityInRange(bRet) /\ PriceNonNegative(bRet)
        /\ (~NoArbitrage /\ bArgs.u # bArgs.d) => bRet.kind = "return"

\* C13: with S0 > 0, K >= 0, d < 1 + rT < u and 1 + rT > 0 the call returns a result
\* whose p is in [0, 1] and whose Price is >= 0, for either option kind; with
\* S0 > 0, u # d and 1 + rT # 0 it returns a result whether or not the constraint
\* holds; with u # d and 1 + rT = 0 it raises ZeroDivisionError, constraint or not;
\* with the constraint and 1 + rT < 0 the returned p is still in [0, 1] and the
\* returned Price is never positive.
C13_NoArbitrage ==
    bRet # NoCall =>
        /\ (PositiveSpot /\ NoArbitrage /\ RLt(RZero, ArgR)) =>
               bRet.kind = "return" /\ ProbabilityInRange(bRet) /\ PriceNonNegative(bRet)
        /\ (RLt(RZero, bArgs.S0) /\ bArgs.u # bArgs.d /\ ArgR # RZero) =>
               bRet.kind = "return"
        /\ (bArgs.u # bArgs.d /\ ArgR = RZero) => IsZeroDivision(bRet)
        /\ (PositiveSpot /\ NoArbitrage /\ RLt(ArgR, RZero)) =>
               /\ bRet.kind = "return" /\ ProbabilityInRange(bRet)
               /\ RLe(bRet.val["Price"], RZero)

\* C13 witness: a call under the constraint with a positive growth factor has
\* returned p strictly between 0 and 1 and a positive Price
C13_Witness ==
    /\ PositiveSpot /\ NoArbitrage /\ RLt(RZero, ArgR)
    /\ bRet.kind = "return"
    /\ RLt(RZero, bRet.val["p"]) /\ RLt(bRet.val["p"], ROne)
    /\ RLt(RZero, bRet.val["Price"])
====
